---- MODULE Spec2Model ----
(***************************************************************************)
(* A model of glox, the tree-walking Lox interpreter written in Go.        *)
(*                                                                         *)
(*   - the Interpreter of glox/internal/lox/interpreter.go, as recursive   *)
(*     operators that thread the interpreter (its environment chain, its   *)
(*     distance table, its output) through every visit method;             *)
(*   - the two SimpleReporter implementations of the repository;           *)
(*   - the command line driver (func main).                                *)
(*                                                                         *)
(* Go's (value, error) results are records [in, val, err]; a Go pointer is *)
(* an index into a heap sequence (envs, instances) or a fresh id.          *)
(* Tokens are reduced to their lexeme: line numbers are not modelled.      *)
(* Lox numbers are modelled by integers; SLASH is left out for that reason.*)
(***************************************************************************)
EXTENDS Integers, Sequences, FiniteSets, TLC

VARIABLES
    \* ---- Interpreter (interpreter.go:16-23) and the heap it points into
    globals,        \* in.globals: index of the global frame in envs
    environment,    \* in.environment: index of the current frame in envs
    locals,         \* in.locals: expression id -> distance
    output,         \* in.output: the lines written so far
    isREPL,         \* in.isREPL
    envs,           \* every *environment allocated so far
    instances,      \* every *instance allocated so far
    nextId,         \* identity of the next *function / *class allocated
    \* ---- SimpleReporter of glox/internal/lox/reporter.go
    reporter,
    \* ---- SimpleReporter of the second copy (unnamed/part_001)
    reporter1,
    \* ---- the session driving the interpreter
    phase,          \* "idle" | "ready" (resolved, waiting for Interpret)
    pending,        \* the statements handed to the next Interpret
    runs,           \* number of Interpret calls so far
    trace,          \* history of the last Interpret call (ghost)
    before,         \* interpreter and reporter just before it (ghost)
    \* ---- func main (unnamed/part_000)
    pc, nargs, inputs, exitCode,
    \* ---- history of reporter calls (ghost)
    calls

vars == <<globals, environment, locals, output, isREPL, envs, instances,
          nextId, reporter, reporter1, phase, pending, runs, trace, before,
          pc, nargs, inputs, exitCode, calls>>

----------------------------------------------------------------------------
\* Bounds of the model.

\* REPL lines (Interpret calls) per session.
MaxRuns == 2
\* Reporter calls per reporter history.
MaxCalls == 4
\* Lines read by the prompt loop of the driver.
MaxLines == 3
\* Command line arguments.
MaxArgs == 2

----------------------------------------------------------------------------
\* Lox values (interface{} in the source).

Nil == [t |-> "nil"]
Bool(b) == [t |-> "bool", v |-> b]
Num(n) == [t |-> "num", v |-> n]
Str(s) == [t |-> "str", v |-> s]
Clock == [t |-> "clock"]

\* Go's == on two interface{} values: same dynamic type and same value;
\* pointers (functions, classes, instances) compare by identity.
GoEq(a, b) ==
    /\ a.t = b.t
    /\ CASE a.t \in {"bool", "num", "str"} -> a.v = b.v
         [] a.t \in {"fn", "class", "inst"} -> a.id = b.id
         [] OTHER -> TRUE

truthy(v) ==
    CASE v.t = "nil" -> FALSE
      [] v.t = "bool" -> v.v
      [] OTHER -> TRUE

stringify(v) ==
    CASE v.t = "nil" -> "nil"
      [] v.t = "bool" -> IF v.v THEN "true" ELSE "false"
      [] v.t = "num" -> ToString(v.v)
      [] v.t = "str" -> v.v
      [] v.t = "fn" -> "<fn " \o v.decl.Name \o ">"
      [] v.t = "clock" -> "<native fn>"
      [] v.t = "class" -> v.name
      [] v.t = "inst" -> v.class.name \o " instance"

\* Errors (Go's error values).
NoErr == [k |-> "nil"]
newRuntimeError(msg) == [k |-> "runtimeError", msg |-> msg]
newCallReturn(val) == [k |-> "callReturn", val |-> val]

----------------------------------------------------------------------------
\* Environment: frames live in in.envs; a frame is [values, enclosing],
\* enclosing = 0 for nil.

NoValues == [n \in {} |-> Nil]

newEnvironment(in, enclosing) ==
    [in EXCEPT !.envs = Append(@, [values |-> NoValues, enclosing |-> enclosing])]

\* The frame just allocated by newEnvironment.
lastEnv(in) == Len(in.envs)

put(values, name, val) ==
    [n \in DOMAIN values \cup {name} |-> IF n = name THEN val ELSE values[n]]

define(in, env, name, val) ==
    [in EXCEPT !.envs[env].values = put(@, name, val)]

RECURSIVE ancestor(_, _, _)
ancestor(in, env, steps) ==
    IF steps = 0 THEN env ELSE ancestor(in, in.envs[env].enclosing, steps - 1)

getAt(in, env, steps, name) ==
    LET values == in.envs[ancestor(in, env, steps)].values
    IN  IF name \in DOMAIN values THEN values[name] ELSE Nil

assignAt(in, env, steps, name, val) ==
    [in EXCEPT !.envs[ancestor(in, env, steps)].values = put(@, name, val)]

\* The frame of the chain starting at env that binds name, 0 if none.
RECURSIVE holder(_, _, _)
holder(in, env, name) ==
    IF env = 0 THEN 0
    ELSE IF name \in DOMAIN in.envs[env].values THEN env
    ELSE holder(in, in.envs[env].enclosing, name)

get(in, env, name) ==
    LET h == holder(in, env, name)
    IN  IF h # 0
        THEN [in |-> in, val |-> in.envs[h].values[name], err |-> NoErr]
        ELSE [in |-> in, val |-> Nil,
              err |-> newRuntimeError("Undefined variable '" \o name \o "'.")]

assign(in, env, name, val) ==
    LET h == holder(in, env, name)
    IN  IF h # 0
        THEN [in |-> [in EXCEPT !.envs[h].values[name] = val], err |-> NoErr]
        ELSE [in |-> in,
              err |-> newRuntimeError("Undefined variable '" \o name \o "'.")]

----------------------------------------------------------------------------
\* Syntax trees (stmt.go and the expression nodes the visitors take).
\* NoNode is Go's nil for an optional child. Var, Assign, This and Super
\* expressions carry an id: their identity as key of in.locals.

NoNode == [k |-> "nil"]

LiteralExpr(val) == [k |-> "Literal", Val |-> val]
VarExpr(id, name) == [k |-> "Var", id |-> id, Name |-> name]
AssignExpr(id, name, val) == [k |-> "Assign", id |-> id, Name |-> name, Val |-> val]
BinaryExpr(lhs, op, rhs) == [k |-> "Binary", Lhs |-> lhs, Op |-> op, Rhs |-> rhs]
CallExpr(callee, args) == [k |-> "Call", Callee |-> callee, Args |-> args]
GetExpr(obj, name) == [k |-> "Get", Obj |-> obj, Name |-> name]
GroupExpr(expr) == [k |-> "Group", Expr |-> expr]
LogicalExpr(lhs, op, rhs) == [k |-> "Logical", Lhs |-> lhs, Op |-> op, Rhs |-> rhs]
SetExpr(obj, name, val) == [k |-> "Set", Obj |-> obj, Name |-> name, Val |-> val]
SuperExpr(id, method) == [k |-> "Super", id |-> id, Method |-> method]
ThisExpr(id) == [k |-> "This", id |-> id]
UnaryExpr(op, expr) == [k |-> "Unary", Op |-> op, Expr |-> expr]

BlockStmt(stmts) == [k |-> "Block", Stmts |-> stmts]
ClassStmt(name, super, methods) ==
    [k |-> "Class", Name |-> name, Super |-> super, Methods |-> methods]
ExprStmt(expr) == [k |-> "Expr", Expr |-> expr]
FunctionStmt(name, params, body) ==
    [k |-> "Function", Name |-> name, Params |-> params, Body |-> body]
IfStmt(cond, thenBranch, elseBranch) ==
    [k |-> "If", Cond |-> cond, ThenBranch |-> thenBranch, ElseBranch |-> elseBranch]
PrintStmt(expr) == [k |-> "Print", Expr |-> expr]
ReturnStmt(val) == [k |-> "Return", Val |-> val]
VarStmt(name, init) == [k |-> "Var", Name |-> name, Init |-> init]
WhileStmt(cond, body) == [k |-> "While", Cond |-> cond, Body |-> body]

----------------------------------------------------------------------------
\* The history of an Interpret call. Every event is a record with a field
\* ev; Log appends one. The history is read by the properties only: no
\* operator of the interpreter reads in.trace.

Log(in, e) == [in EXCEPT !.trace = Append(@, e)]

Ok(in, val) == [in |-> in, val |-> val, err |-> NoErr]
Fail(in, err) == [in |-> in, val |-> Nil, err |-> err]

Absent == [t |-> "absent"]

\* The binding of name in every frame: what a read or an assignment of
\* name can see or change.
bindings(in, name) ==
    [f \in DOMAIN in.envs |->
        IF name \in DOMAIN in.envs[f].values THEN in.envs[f].values[name] ELSE Absent]

changed(old, new) == {f \in DOMAIN old.envs : old.envs[f] # new.envs[f]}

----------------------------------------------------------------------------
\* Callables: *function, *class, *functionClock; and *instance.

newFunction(in, decl, closure, isInitializer) ==
    [in  |-> [in EXCEPT !.nextId = @ + 1],
     val |-> [t |-> "fn", id |-> in.nextId, decl |-> decl, closure |-> closure,
              isInitializer |-> isInitializer],
     err |-> NoErr]

newClass(in, name, super, methods) ==
    [in  |-> [in EXCEPT !.nextId = @ + 1],
     val |-> [t |-> "class", id |-> in.nextId, name |-> name, super |-> super,
              methods |-> methods],
     err |-> NoErr]

RECURSIVE findMethod(_, _)
findMethod(class, name) ==
    IF name \in DOMAIN class.methods THEN class.methods[name]
    ELSE IF class.super # Nil THEN findMethod(class.super, name)
    ELSE Nil

isCallable(v) == v.t \in {"fn", "class", "clock"}

arity(v) ==
    CASE v.t = "fn" -> Len(v.decl.Params)
      [] v.t = "class" ->
            LET init == findMethod(v, "init")
            IN  IF init # Nil THEN Len(init.decl.Params) ELSE 0
      [] v.t = "clock" -> 0

\* function.bind: a copy of the method whose closure is a new frame that
\* binds "this".
bind(in, fn, inst) ==
    LET in1 == newEnvironment(in, fn.closure)
        in2 == define(in1, lastEnv(in1), "this", inst)
    IN  newFunction(in2, fn.decl, lastEnv(in1), fn.isInitializer)

newInstance(in, class) ==
    LET in1 == [in EXCEPT !.instances = Append(@, [fields |-> NoValues])]
    IN  Ok(in1, [t |-> "inst", id |-> Len(in1.instances), class |-> class])

instanceGet(in, inst, name) ==
    LET fields == in.instances[inst.id].fields
        method == findMethod(inst.class, name)
    IN  IF name \in DOMAIN fields THEN Ok(in, fields[name])
        ELSE IF method # Nil THEN bind(in, method, inst)
        ELSE Fail(in, newRuntimeError("Undefined property '" \o name \o "'."))

instanceSet(in, inst, name, val) ==
    [in EXCEPT !.instances[inst.id].fields = put(@, name, val)]

RECURSIVE defineParams(_, _, _, _, _)
defineParams(in, env, params, args, i) ==
    IF i > Len(params) THEN in
    ELSE defineParams(define(in, env, params[i], args[i]), env, params, args, i + 1)

----------------------------------------------------------------------------
\* The Interpreter's visit methods. Each takes the interpreter and a node
\* and gives [in, val, err]: the interpreter after the visit and Go's
\* (interface{}, error) result.

RECURSIVE exec(_, _), eval(_, _), execBlock(_, _, _), execStmts(_, _, _),
          evalArgs(_, _, _, _, _), whileLoop(_, _), buildMethods(_, _, _, _)

\* Go's "x, err := f(); if err != nil { return nil, err }": the rest of the
\* method, K, runs on the result r of f only when r carries no error.
Try(r, K(_)) == IF r.err # NoErr THEN Fail(r.in, r.err) ELSE K(r)

\* Go's "x, err := f()" where the method goes on whatever err is.
With(r, K(_)) == K(r)

\* interpreter.go:435-447. The "enterBlock" and "exitBlock" events record the
\* current environment before the block and after the deferred function.
execBlockDone(in, enter, prevEnv, err) ==
    [in  |-> Log(in, [ev |-> "exitBlock", enter |-> enter, prev |-> prevEnv,
                      environment |-> in.environment, err |-> err]),
     val |-> Nil, err |-> err]

\* A variant without defer: the environment is put back only when every
\* statement has completed.
execBlockNoDefer(in, statements, env) ==
    LET prevEnv == in.environment
        enter == Len(in.trace) + 1
        in1 == Log([in EXCEPT !.environment = env],
                   [ev |-> "enterBlock", prev |-> prevEnv, env |-> env])
    IN  With(execStmts(in1, statements, 1), LAMBDA r :
            IF r.err # NoErr THEN execBlockDone(r.in, enter, prevEnv, r.err)
            ELSE execBlockDone([r.in EXCEPT !.environment = prevEnv],
                               enter, prevEnv, r.err))

\* A variant that pops to the frame enclosing env instead of the frame
\* that was current.
execBlockPop(in, statements, env) ==
    LET prevEnv == in.environment
        enter == Len(in.trace) + 1
        in1 == Log([in EXCEPT !.environment = env],
                   [ev |-> "enterBlock", prev |-> prevEnv, env |-> env])
    IN  With(execStmts(in1, statements, 1), LAMBDA r :
            execBlockDone([r.in EXCEPT !.environment = r.in.envs[env].enclosing],
                          enter, prevEnv, r.err))

execBlock(in, statements, env) ==
    LET prevEnv == in.environment
        enter == Len(in.trace) + 1
        in1 == Log([in EXCEPT !.environment = env],
                   [ev |-> "enterBlock", prev |-> prevEnv, env |-> env])
    IN  With(execStmts(in1, statements, 1), LAMBDA r :
            execBlockDone([r.in EXCEPT !.environment = prevEnv],
                          enter, prevEnv, r.err))

\* The loop of execBlock, from statement i on (interpreter.go:441-446).
execStmts(in, statements, i) ==
    IF i > Len(statements) THEN Ok(in, Nil)
    ELSE Try(exec(in, statements[i]), LAMBDA r :
            execStmts(r.in, statements, i + 1))

VisitBlockStmt(in, stmt) ==
    LET in1 == newEnvironment(in, in.environment)
    IN  execBlock(in1, stmt.Stmts, lastEnv(in1))

VisitExprStmt(in, stmt) ==
    Try(eval(in, stmt.Expr), LAMBDA r :
        IF r.in.isREPL /\ stmt.Expr.k \notin {"Assign", "Call"}
        THEN Ok([r.in EXCEPT !.output = Append(@, stringify(r.val))], Nil)
        ELSE Ok(r.in, Nil))

\* The loop building the method map (interpreter.go:90-95), from method i on.
buildMethods(in, decls, i, methods) ==
    IF i > Len(decls) THEN Ok(in, methods)
    ELSE LET isInitializer == decls[i].Name = "init"
             fn == newFunction(in, decls[i], in.environment, isInitializer)
         IN  buildMethods(fn.in, decls, i + 1, put(methods, decls[i].Name, fn.val))

\* interpreter.go:90-102 with the superclass frame left on the chain
\* (lines 97-100 missing).
defineClassNoPop(in, stmt, super) ==
    With(buildMethods(in, stmt.Methods, 1, NoValues), LAMBDA methods :
        LET class == newClass(methods.in, stmt.Name, super, methods.val)
        IN  Ok(define(class.in, class.in.environment, stmt.Name, class.val), Nil))

\* interpreter.go:90-102: the methods, the class, the pop of the superclass
\* frame and the definition of the class.
defineClass(in, stmt, super) ==
    With(buildMethods(in, stmt.Methods, 1, NoValues), LAMBDA methods :
        LET class == newClass(methods.in, stmt.Name, super, methods.val)
            in1 == IF super # Nil
                   THEN [class.in EXCEPT
                            !.environment = class.in.envs[class.in.environment].enclosing]
                   ELSE class.in
        IN  Ok(define(in1, in1.environment, stmt.Name, class.val), Nil))

VisitClassStmt(in, stmt) ==
    IF stmt.Super # NoNode
    THEN Try(eval(in, stmt.Super), LAMBDA superObj :
            IF superObj.val.t # "class"
            THEN Fail(superObj.in, newRuntimeError("Superclass must be a class."))
            ELSE LET in1 == newEnvironment(superObj.in, superObj.in.environment)
                     in2 == [in1 EXCEPT !.environment = lastEnv(in1)]
                     in3 == define(in2, in2.environment, "super", superObj.val)
                 IN  defineClass(in3, stmt, superObj.val))
    ELSE defineClass(in, stmt, Nil)

VisitFunctionStmt(in, stmt) ==
    LET fn == newFunction(in, stmt, in.environment, FALSE)
    IN  Ok(define(fn.in, fn.in.environment, stmt.Name, fn.val), Nil)

\* A variant that drops what the then-branch returns.
VisitIfStmtDrop(in, stmt) ==
    Try(eval(in, stmt.Cond), LAMBDA cond :
        IF truthy(cond.val) THEN Ok(exec(cond.in, stmt.ThenBranch).in, Nil)
        ELSE IF stmt.ElseBranch # NoNode THEN exec(cond.in, stmt.ElseBranch)
        ELSE Ok(cond.in, Nil))

VisitIfStmt(in, stmt) ==
    Try(eval(in, stmt.Cond), LAMBDA cond :
        IF truthy(cond.val) THEN exec(cond.in, stmt.ThenBranch)
        ELSE IF stmt.ElseBranch # NoNode THEN exec(cond.in, stmt.ElseBranch)
        ELSE Ok(cond.in, Nil))

VisitPrintStmt(in, stmt) ==
    Try(eval(in, stmt.Expr), LAMBDA expr :
        Ok([expr.in EXCEPT !.output = Append(@, stringify(expr.val))], Nil))

VisitVarStmt(in, stmt) ==
    IF stmt.Init # NoNode
    THEN Try(eval(in, stmt.Init), LAMBDA initVal :
            Ok(define(initVal.in, initVal.in.environment, stmt.Name, initVal.val), Nil))
    ELSE Ok(define(in, in.environment, stmt.Name, Nil), Nil)

VisitReturnStmt(in, stmt) ==
    IF stmt.Val # NoNode
    THEN Try(eval(in, stmt.Val), LAMBDA val :
            Fail(val.in, newCallReturn(val.val)))
    ELSE Fail(in, newCallReturn(Nil))

\* One turn of the for loop of VisitWhileStmt (interpreter.go:159-171). The
\* "cond" event records an evaluation of the condition.
whileLoop(in, stmt) ==
    Try(eval(Log(in, [ev |-> "cond"]), stmt.Cond), LAMBDA cond :
        IF ~truthy(cond.val) THEN Ok(cond.in, Nil)
        ELSE Try(exec(cond.in, stmt.Body), LAMBDA body :
                whileLoop(body.in, stmt)))

VisitWhileStmt(in, stmt) == whileLoop(in, stmt)

\* Stmt.Accept (stmt.go): the visit method of the statement's type.
Accept(in, stmt) ==
    CASE stmt.k = "Block" -> VisitBlockStmt(in, stmt)
      [] stmt.k = "Class" -> VisitClassStmt(in, stmt)
      [] stmt.k = "Expr" -> VisitExprStmt(in, stmt)
      [] stmt.k = "Function" -> VisitFunctionStmt(in, stmt)
      [] stmt.k = "If" -> VisitIfStmt(in, stmt)
      [] stmt.k = "Print" -> VisitPrintStmt(in, stmt)
      [] stmt.k = "Return" -> VisitReturnStmt(in, stmt)
      [] stmt.k = "Var" -> VisitVarStmt(in, stmt)
      [] stmt.k = "While" -> VisitWhileStmt(in, stmt)

\* What the properties need to know of a statement (not the whole tree).
about(stmt) ==
    CASE stmt.k = "Class" -> [name |-> stmt.Name, hasSuper |-> stmt.Super # NoNode,
                              methods |-> {stmt.Methods[i].Name : i \in DOMAIN stmt.Methods}]
      [] stmt.k = "Return" -> [hasVal |-> stmt.Val # NoNode]
      [] OTHER -> [none |-> TRUE]

\* interpreter.go:449-451. The "stmt" event records the start of a statement,
\* the "done" event its end: the error it returned, the current environment
\* then and, for a class statement, what its name is bound to there.
exec(in, stmt) ==
    LET start == Len(in.trace) + 1
        in1 == Log(in, [ev |-> "stmt", k |-> stmt.k, about |-> about(stmt),
                        environment |-> in.environment, nenvs |-> Len(in.envs)])
    IN  With(Accept(in1, stmt), LAMBDA r :
            LET bound == IF stmt.k = "Class" /\ r.err = NoErr
                         THEN getAt(r.in, r.in.environment, 0, stmt.Name)
                         ELSE Nil
            IN  [in  |-> Log(r.in, [ev |-> "done", k |-> stmt.k, start |-> start,
                                    environment |-> r.in.environment, err |-> r.err,
                                    bound |-> bound]),
                 val |-> r.val, err |-> r.err])

----------------------------------------------------------------------------
\* Expressions.

\* The "read" and "assign" events record the expression, the current
\* environment, the binding of the name in every frame before (was) and
\* after (now), the frames that changed, and the result.
ReadEvent(in, expr, name, r) ==
    [ev |-> "read", id |-> expr.id, name |-> name, environment |-> in.environment,
     was |-> bindings(in, name), now |-> bindings(r.in, name),
     changed |-> changed(in, r.in), val |-> r.val, err |-> r.err]

AssignEvent(in, expr, r, val) ==
    [ev |-> "assign", id |-> expr.id, name |-> expr.Name,
     environment |-> in.environment,
     was |-> bindings(in, expr.Name), now |-> bindings(r.in, expr.Name),
     changed |-> changed(in, r.in), val |-> val, err |-> r.err]

\* A variant that looks an unresolved name up along the whole chain of the
\* current environment (dynamic scoping).
lookUpVarDynamic(in, name, expr) ==
    LET r == IF expr.id \in DOMAIN in.locals
             THEN Ok(in, getAt(in, in.environment, in.locals[expr.id], name))
             ELSE get(in, in.environment, name)
    IN  [r EXCEPT !.in = Log(@, ReadEvent(in, expr, name, r))]

\* interpreter.go:461-467
lookUpVar(in, name, expr) ==
    LET r == IF expr.id \in DOMAIN in.locals
             THEN Ok(in, getAt(in, in.environment, in.locals[expr.id], name))
             ELSE get(in, in.globals, name)
    IN  [r EXCEPT !.in = Log(@, ReadEvent(in, expr, name, r))]

\* interpreter.go:174-186
VisitAssignExpr(in, expr) ==
    Try(eval(in, expr.Val), LAMBDA val :
        LET r == IF expr.id \in DOMAIN val.in.locals
                 THEN Ok(assignAt(val.in, val.in.environment,
                                  val.in.locals[expr.id], expr.Name, val.val),
                         val.val)
                 ELSE LET a == assign(val.in, val.in.globals, expr.Name, val.val)
                      IN  [in |-> a.in, val |-> val.val, err |-> a.err]
        IN  [r EXCEPT !.in = Log(@, AssignEvent(val.in, expr, r, val.val))])

isNum(v) == v.t = "num"
isStr(v) == v.t = "str"

\* interpreter.go:188-287
VisitBinaryExpr(in, expr) ==
    Try(eval(in, expr.Lhs), LAMBDA lhs :
    Try(eval(lhs.in, expr.Rhs), LAMBDA rhs :
        LET l == lhs.val
            r == rhs.val
            nums == isNum(l) /\ isNum(r)
            mustBeNumbers == Fail(rhs.in, newRuntimeError("Operands must be numbers."))
        IN  CASE expr.Op = "BANG_EQUAL" -> Ok(rhs.in, Bool(~GoEq(l, r)))
              [] expr.Op = "EQUAL_EQUAL" -> Ok(rhs.in, Bool(GoEq(l, r)))
              [] expr.Op = "GREATER" ->
                    IF nums THEN Ok(rhs.in, Bool(l.v > r.v)) ELSE mustBeNumbers
              [] expr.Op = "GREATER_EQUAL" ->
                    IF nums THEN Ok(rhs.in, Bool(l.v >= r.v)) ELSE mustBeNumbers
              [] expr.Op = "LESS" ->
                    IF nums THEN Ok(rhs.in, Bool(l.v < r.v)) ELSE mustBeNumbers
              [] expr.Op = "LESS_EQUAL" ->
                    IF nums THEN Ok(rhs.in, Bool(l.v <= r.v)) ELSE mustBeNumbers
              [] expr.Op = "MINUS" ->
                    IF nums THEN Ok(rhs.in, Num(l.v - r.v)) ELSE mustBeNumbers
              [] expr.Op = "PLUS" ->
                    IF isStr(l) /\ isStr(r) THEN Ok(rhs.in, Str(l.v \o r.v))
                    ELSE IF nums THEN Ok(rhs.in, Num(l.v + r.v))
                    ELSE Fail(rhs.in, newRuntimeError(
                            "Operands must be two numbers or two strings."))
              [] expr.Op = "STAR" ->
                    IF nums THEN Ok(rhs.in, Num(l.v * r.v)) ELSE mustBeNumbers))

\* function.call: a frame under the closure binds the parameters and the
\* body runs in it as a block; a callReturn ends here ("caught" event).
functionCall(in, fn, args) ==
    LET in1 == newEnvironment(in, fn.closure)
        env == lastEnv(in1)
        in2 == defineParams(in1, env, fn.decl.Params, args, 1)
    IN  With(execBlock(in2, fn.decl.Body, env), LAMBDA r :
            LET this == getAt(r.in, fn.closure, 0, "this")
            IN  IF r.err.k = "callReturn"
                THEN LET in3 == Log(r.in, [ev |-> "caught", val |-> r.err.val])
                     IN  IF fn.isInitializer THEN Ok(in3, this) ELSE Ok(in3, r.err.val)
                ELSE IF r.err # NoErr THEN Fail(r.in, r.err)
                ELSE IF fn.isInitializer THEN Ok(r.in, this)
                ELSE Ok(r.in, Nil))

\* class.call: a new instance, initialised by init when the class has one.
classCall(in, class, args) ==
    LET inst == newInstance(in, class)
        init == findMethod(class, "init")
    IN  IF init # Nil
        THEN LET bound == bind(inst.in, init, inst.val)
             IN  Try(functionCall(bound.in, bound.val, args), LAMBDA r :
                     Ok(r.in, inst.val))
        ELSE inst

\* callable.call (interpreter.go:11) of each callable type.
call(in, callee, args) ==
    CASE callee.t = "fn" -> functionCall(in, callee, args)
      [] callee.t = "class" -> classCall(in, callee, args)
      [] callee.t = "clock" -> Ok(in, Num(in.now))

\* The loop over the arguments (interpreter.go:303-310), from argument i on.
\* The "arg" event records that argument i of activation act is evaluated.
evalArgs(in, exprs, i, args, act) ==
    IF i > Len(exprs) THEN Ok(in, args)
    ELSE Try(eval(in, exprs[i]), LAMBDA argVal :
            evalArgs(Log(argVal.in, [ev |-> "arg", act |-> act, i |-> i]),
                     exprs, i + 1, Append(args, argVal.val), act))

arityMessage(n, m) ==
    "Expected " \o ToString(n) \o " arguments but got " \o ToString(m) \o "."

\* The checks and the dispatch of VisitCallExpr (interpreter.go:312-327).
\* Events: "check" when the callee is callable, then "arityError" or
\* "invoke"; the activation is named by the index of its "callee" event.
dispatchFewer(in, callee, args, act) ==
    IF ~isCallable(callee)
    THEN Fail(in, newRuntimeError("Can only call functions and classes."))
    ELSE LET in1 == Log(in, [ev |-> "check", act |-> act, nargs |-> Len(args),
                             arity |-> arity(callee)])
         IN  IF Len(args) < arity(callee)
             THEN Fail(Log(in1, [ev |-> "arityError", act |-> act]),
                       newRuntimeError(arityMessage(arity(callee), Len(args))))
             ELSE call(Log(in1, [ev |-> "invoke", act |-> act]), callee, args)

dispatch(in, callee, args, act) ==
    IF ~isCallable(callee)
    THEN Fail(in, newRuntimeError("Can only call functions and classes."))
    ELSE LET in1 == Log(in, [ev |-> "check", act |-> act, nargs |-> Len(args),
                             arity |-> arity(callee)])
         IN  IF Len(args) # arity(callee)
             THEN Fail(Log(in1, [ev |-> "arityError", act |-> act]),
                       newRuntimeError(arityMessage(arity(callee), Len(args))))
             ELSE call(Log(in1, [ev |-> "invoke", act |-> act]), callee, args)

\* interpreter.go:289-328. Events: "callee" once the callee is evaluated,
\* "called" when the visit returns.
VisitCallExpr(in, expr) ==
    Try(eval(in, expr.Callee), LAMBDA callee :
        LET act == Len(callee.in.trace) + 1
            in1 == Log(callee.in, [ev |-> "callee", n |-> Len(expr.Args)])
        IN  Try(evalArgs(in1, expr.Args, 1, <<>>, act), LAMBDA args :
            With(dispatch(args.in, callee.val, args.val, act), LAMBDA r :
                [r EXCEPT !.in = Log(@, [ev |-> "called", act |-> act,
                                         err |-> r.err])])))

\* interpreter.go:330-341
VisitGetExpr(in, expr) ==
    Try(eval(in, expr.Obj), LAMBDA obj :
        IF obj.val.t = "inst" THEN instanceGet(obj.in, obj.val, expr.Name)
        ELSE Fail(obj.in, newRuntimeError("Only instances have properties.")))

VisitGroupExpr(in, expr) == eval(in, expr.Expr)

VisitLiteralExpr(in, expr) == Ok(in, expr.Val)

\* interpreter.go:351-371
VisitLogicalExpr(in, expr) ==
    Try(eval(in, expr.Lhs), LAMBDA lhs :
        IF expr.Op = "OR" /\ truthy(lhs.val) THEN lhs
        ELSE IF expr.Op = "AND" /\ ~truthy(lhs.val) THEN lhs
        ELSE eval(lhs.in, expr.Rhs))

\* interpreter.go:373-389
VisitSetExpr(in, expr) ==
    Try(eval(in, expr.Obj), LAMBDA obj :
        IF obj.val.t = "inst"
        THEN Try(eval(obj.in, expr.Val), LAMBDA val :
                Ok(instanceSet(val.in, obj.val, expr.Name, val.val), val.val))
        ELSE Fail(obj.in, newRuntimeError("Only instances have fields.")))

\* interpreter.go:391-407
VisitSuperExpr(in, expr) ==
    LET steps == in.locals[expr.id]
        super == getAt(in, in.environment, steps, "super")
        this == getAt(in, in.environment, steps - 1, "this")
        method == findMethod(super, expr.Method)
    IN  IF method = Nil
        THEN Fail(in, newRuntimeError("Undefined property '" \o expr.Method \o "'."))
        ELSE bind(in, method, this)

VisitThisExpr(in, expr) == lookUpVar(in, "this", expr)

\* interpreter.go:413-429
VisitUnaryExpr(in, expr) ==
    Try(eval(in, expr.Expr), LAMBDA exprVal :
        IF expr.Op = "BANG" THEN Ok(exprVal.in, Bool(~truthy(exprVal.val)))
        ELSE IF isNum(exprVal.val) THEN Ok(exprVal.in, Num(-exprVal.val.v))
        ELSE Fail(exprVal.in, newRuntimeError("Operand must be a number.")))

VisitVarExpr(in, expr) == lookUpVar(in, expr.Name, expr)

\* interpreter.go:453-455 and Expr.Accept
eval(in, expr) ==
    CASE expr.k = "Assign" -> VisitAssignExpr(in, expr)
      [] expr.k = "Binary" -> VisitBinaryExpr(in, expr)
      [] expr.k = "Call" -> VisitCallExpr(in, expr)
      [] expr.k = "Get" -> VisitGetExpr(in, expr)
      [] expr.k = "Group" -> VisitGroupExpr(in, expr)
      [] expr.k = "Literal" -> VisitLiteralExpr(in, expr)
      [] expr.k = "Logical" -> VisitLogicalExpr(in, expr)
      [] expr.k = "Set" -> VisitSetExpr(in, expr)
      [] expr.k = "Super" -> VisitSuperExpr(in, expr)
      [] expr.k = "This" -> VisitThisExpr(in, expr)
      [] expr.k = "Unary" -> VisitUnaryExpr(in, expr)
      [] expr.k = "Var" -> VisitVarExpr(in, expr)

----------------------------------------------------------------------------
\* SimpleReporter. A reporter is [hadErr, hadRuntimeErr, writer]; writer is
\* the sequence of the errors written.

NewSimpleReporter == [hadErr |-> FALSE, hadRuntimeErr |-> FALSE, writer |-> <<>>]

\* A variant that sets both flags.
ReportBoth(rep, err) ==
    [rep EXCEPT !.writer = Append(@, err), !.hadRuntimeErr = TRUE, !.hadErr = TRUE]

\* reporter.go:30-37
Report(rep, err) ==
    LET written == [rep EXCEPT !.writer = Append(@, err)]
    IN  IF err.k = "runtimeError"
        THEN [written EXCEPT !.hadRuntimeErr = TRUE]
        ELSE [written EXCEPT !.hadErr = TRUE]

\* reporter.go:39-42
Reset(rep) == [rep EXCEPT !.hadErr = FALSE, !.hadRuntimeErr = FALSE]

HadError(rep) == rep.hadErr
HadRuntimeError(rep) == rep.hadRuntimeErr

\* The second copy of the reporter (unnamed/part_001).
Report1(rep, err) ==
    LET written == [rep EXCEPT !.writer = Append(@, err)]
    IN  IF err.k = "runtimeError"
        THEN [written EXCEPT !.hadRuntimeErr = TRUE]
        ELSE [written EXCEPT !.hadErr = TRUE]

\* unnamed/part_001:43-45
Reset1(rep) == [rep EXCEPT !.hadErr = FALSE]

----------------------------------------------------------------------------
\* Interpret (interpreter.go:39-46).

RECURSIVE interpretFrom(_, _, _)

\* The "top" event records the start of top-level statement i, the output
\* and the global names then.
TopEvent(in, i) ==
    [ev |-> "top", i |-> i, output |-> in.output,
     names |-> DOMAIN in.envs[in.globals].values]

\* A variant without the break: the loop goes on after a report.
interpretNoBreak(in, statements, i) ==
    IF i > Len(statements) THEN in
    ELSE With(exec(Log(in, TopEvent(in, i)), statements[i]), LAMBDA r :
            IF r.err # NoErr
            THEN interpretFrom([r.in EXCEPT !.reporter = Report(@, r.err)],
                               statements, i + 1)
            ELSE interpretFrom(r.in, statements, i + 1))

\* The loop of Interpret from statement i on.
interpretFrom(in, statements, i) ==
    IF i > Len(statements) THEN in
    ELSE With(exec(Log(in, TopEvent(in, i)), statements[i]), LAMBDA r :
            IF r.err # NoErr
            THEN [r.in EXCEPT !.reporter = Report(@, r.err)]
            ELSE interpretFrom(r.in, statements, i + 1))

Interpret(in, statements) == interpretFrom(in, statements, 1)

\* interpreter.go:457-459
resolve(table, expr, steps) == put(table, expr.id, steps)

----------------------------------------------------------------------------
\* The resolver: the pass that fills in.locals before Interpret. Its state
\* is [scopes, locals]: the stack of local scopes (sets of names, innermost
\* last) and the distance table.

RECURSIVE depthOf(_, _, _)
depthOf(scopes, name, i) ==
    IF i = 0 THEN -1
    ELSE IF name \in scopes[i] THEN Len(scopes) - i
    ELSE depthOf(scopes, name, i - 1)

resolveLocal(rs, expr, name) ==
    LET d == depthOf(rs.scopes, name, Len(rs.scopes))
    IN  IF d >= 0 THEN [rs EXCEPT !.locals = resolve(@, expr, d)] ELSE rs

declare(rs, name) ==
    IF Len(rs.scopes) = 0 THEN rs
    ELSE [rs EXCEPT !.scopes[Len(rs.scopes)] = @ \cup {name}]

beginScope(rs, names) == [rs EXCEPT !.scopes = Append(@, names)]
endScope(rs) == [rs EXCEPT !.scopes = SubSeq(@, 1, Len(@) - 1)]

RECURSIVE resolveStmt(_, _), resolveStmts(_, _, _), resolveExpr(_, _),
          resolveExprs(_, _, _), resolveMethods(_, _, _)

resolveFunction(rs, decl) ==
    LET params == {decl.Params[i] : i \in DOMAIN decl.Params}
    IN  endScope(resolveStmts(beginScope(rs, params), decl.Body, 1))

resolveMethods(rs, decls, i) ==
    IF i > Len(decls) THEN rs
    ELSE resolveMethods(resolveFunction(rs, decls[i]), decls, i + 1)

resolveStmts(rs, stmts, i) ==
    IF i > Len(stmts) THEN rs
    ELSE resolveStmts(resolveStmt(rs, stmts[i]), stmts, i + 1)

resolveExprs(rs, exprs, i) ==
    IF i > Len(exprs) THEN rs
    ELSE resolveExprs(resolveExpr(rs, exprs[i]), exprs, i + 1)

resolveStmt(rs, stmt) ==
    CASE stmt.k = "Block" -> endScope(resolveStmts(beginScope(rs, {}), stmt.Stmts, 1))
      [] stmt.k = "Class" ->
            LET rs1 == declare(rs, stmt.Name)
            IN  IF stmt.Super # NoNode
                THEN LET rs2 == resolveExpr(rs1, stmt.Super)
                         rs3 == beginScope(beginScope(rs2, {"super"}), {"this"})
                     IN  endScope(endScope(resolveMethods(rs3, stmt.Methods, 1)))
                ELSE endScope(resolveMethods(beginScope(rs1, {"this"}), stmt.Methods, 1))
      [] stmt.k = "Expr" -> resolveExpr(rs, stmt.Expr)
      [] stmt.k = "Function" -> resolveFunction(declare(rs, stmt.Name), stmt)
      [] stmt.k = "If" ->
            LET rs1 == resolveStmt(resolveExpr(rs, stmt.Cond), stmt.ThenBranch)
            IN  IF stmt.ElseBranch # NoNode THEN resolveStmt(rs1, stmt.ElseBranch) ELSE rs1
      [] stmt.k = "Print" -> resolveExpr(rs, stmt.Expr)
      [] stmt.k = "Return" ->
            IF stmt.Val # NoNode THEN resolveExpr(rs, stmt.Val) ELSE rs
      [] stmt.k = "Var" ->
            IF stmt.Init # NoNode
            THEN declare(resolveExpr(rs, stmt.Init), stmt.Name)
            ELSE declare(rs, stmt.Name)
      [] stmt.k = "While" -> resolveStmt(resolveExpr(rs, stmt.Cond), stmt.Body)

resolveExpr(rs, expr) ==
    CASE expr.k = "Assign" -> resolveLocal(resolveExpr(rs, expr.Val), expr, expr.Name)
      [] expr.k = "Binary" -> resolveExpr(resolveExpr(rs, expr.Lhs), expr.Rhs)
      [] expr.k = "Call" -> resolveExprs(resolveExpr(rs, expr.Callee), expr.Args, 1)
      [] expr.k = "Get" -> resolveExpr(rs, expr.Obj)
      [] expr.k = "Group" -> resolveExpr(rs, expr.Expr)
      [] expr.k = "Literal" -> rs
      [] expr.k = "Logical" -> resolveExpr(resolveExpr(rs, expr.Lhs), expr.Rhs)
      [] expr.k = "Set" -> resolveExpr(resolveExpr(rs, expr.Val), expr.Obj)
      [] expr.k = "Super" -> resolveLocal(rs, expr, "super")
      [] expr.k = "This" -> resolveLocal(rs, expr, "this")
      [] expr.k = "Unary" -> resolveExpr(rs, expr.Expr)
      [] expr.k = "Var" -> resolveLocal(rs, expr, expr.Name)

\* The distance table after resolving a list of top-level statements.
Resolved(table, statements) ==
    resolveStmts([scopes |-> <<>>, locals |-> table], statements, 1).locals

----------------------------------------------------------------------------
\* The programs of the model: each is one script, or one line of a REPL
\* session, as the parser would hand it to the resolver. The ids of the
\* variable expressions are unique over all programs.

Lit(v) == LiteralExpr(v)
CallStmt(callee, args) == ExprStmt(CallExpr(callee, args))

\* var a = "global";
\* { fun showA() { print a; a = "set"; }
\*   showA(); var a = "block"; showA(); { print a; } }
\* print a; b = 1;
StaticScope ==
    << VarStmt("a", Lit(Str("global"))),
       BlockStmt(<<
           FunctionStmt("showA", <<>>, <<
               PrintStmt(VarExpr(101, "a")),
               ExprStmt(AssignExpr(102, "a", Lit(Str("set")))) >>),
           CallStmt(VarExpr(103, "showA"), <<>>),
           VarStmt("a", Lit(Str("block"))),
           CallStmt(VarExpr(104, "showA"), <<>>),
           BlockStmt(<< PrintStmt(VarExpr(105, "a")) >>) >>),
       PrintStmt(VarExpr(106, "a")),
       ExprStmt(AssignExpr(107, "b", Lit(Num(1)))) >>

\* fun makeCounter() { var i = 0; fun count() { i = i + 1; print i; } return count; }
\* var c = makeCounter(); c(); c();
Counter ==
    << FunctionStmt("makeCounter", <<>>, <<
           VarStmt("i", Lit(Num(0))),
           FunctionStmt("count", <<>>, <<
               ExprStmt(AssignExpr(201, "i",
                   BinaryExpr(VarExpr(202, "i"), "PLUS", Lit(Num(1))))),
               PrintStmt(VarExpr(203, "i")) >>),
           ReturnStmt(VarExpr(204, "count")) >>),
       VarStmt("c", CallExpr(VarExpr(205, "makeCounter"), <<>>)),
       CallStmt(VarExpr(206, "c"), <<>>),
       CallStmt(VarExpr(207, "c"), <<>>) >>

\* fun f(n) { var i = 0;
\*            while (i < 3) { { if (i == n) return i; } i = i + 1; }
\*            print "after"; return; }
\* print f(1); print f(5);
Unwind ==
    << FunctionStmt("f", <<"n">>, <<
           VarStmt("i", Lit(Num(0))),
           WhileStmt(BinaryExpr(VarExpr(301, "i"), "LESS", Lit(Num(3))),
               BlockStmt(<<
                   BlockStmt(<<
                       IfStmt(BinaryExpr(VarExpr(302, "i"), "EQUAL_EQUAL", VarExpr(303, "n")),
                              ReturnStmt(VarExpr(304, "i")), NoNode) >>),
                   ExprStmt(AssignExpr(305, "i",
                       BinaryExpr(VarExpr(306, "i"), "PLUS", Lit(Num(1))))) >>)),
           PrintStmt(Lit(Str("after"))),
           ReturnStmt(NoNode) >>),
       PrintStmt(CallExpr(VarExpr(307, "f"), <<Lit(Num(1))>>)),
       PrintStmt(CallExpr(VarExpr(308, "f"), <<Lit(Num(5))>>)) >>

\* var x = 1;
\* fun g(q) { { print "in"; } { if (q) return 1; { print y; } } }
\* print "before"; print g(true); { g(false); print "skipped"; } print "never";
DeepError ==
    << VarStmt("x", Lit(Num(1))),
       FunctionStmt("g", <<"q">>, <<
           BlockStmt(<< PrintStmt(Lit(Str("in"))) >>),
           BlockStmt(<< IfStmt(VarExpr(401, "q"), ReturnStmt(Lit(Num(1))), NoNode),
                        BlockStmt(<< PrintStmt(VarExpr(402, "y")) >>) >>) >>),
       PrintStmt(Lit(Str("before"))),
       PrintStmt(CallExpr(VarExpr(403, "g"), <<Lit(Bool(TRUE))>>)),
       BlockStmt(<< CallStmt(VarExpr(404, "g"), <<Lit(Bool(FALSE))>>),
                    PrintStmt(Lit(Str("skipped"))) >>),
       PrintStmt(Lit(Str("never"))) >>

\* var n = 0; fun h(a) { n = 99; print a; } h(n = 1, n = 2); print "never";
TooManyArgs ==
    << VarStmt("n", Lit(Num(0))),
       FunctionStmt("h", <<"a">>, <<
           ExprStmt(AssignExpr(501, "n", Lit(Num(99)))),
           PrintStmt(VarExpr(502, "a")) >>),
       CallStmt(VarExpr(503, "h"),
                <<AssignExpr(504, "n", Lit(Num(1))), AssignExpr(505, "n", Lit(Num(2)))>>),
       PrintStmt(Lit(Str("never"))) >>

\* fun k(a, b) { print "body"; } { k(1); }
TooFewArgs ==
    << FunctionStmt("k", <<"a", "b">>, << PrintStmt(Lit(Str("body"))) >>),
       BlockStmt(<< CallStmt(VarExpr(601, "k"), <<Lit(Num(1))>>) >>) >>

\* class Box { init(x) { this.x = x; } } print Box(7).x; Box();
ClassArity ==
    << ClassStmt("Box", NoNode, <<
           FunctionStmt("init", <<"x">>, <<
               ExprStmt(SetExpr(ThisExpr(701), "x", VarExpr(702, "x"))) >>) >>),
       PrintStmt(GetExpr(CallExpr(VarExpr(703, "Box"), <<Lit(Num(7))>>), "x")),
       CallStmt(VarExpr(704, "Box"), <<>>) >>

\* var t = clock(); clock(t);
NativeArity ==
    << VarStmt("t", CallExpr(VarExpr(801, "clock"), <<>>)),
       CallStmt(VarExpr(802, "clock"), <<VarExpr(803, "t")>>) >>

\* var m = 0; m(m = 5);
NotCallable ==
    << VarStmt("m", Lit(Num(0))),
       CallStmt(VarExpr(901, "m"), <<AssignExpr(902, "m", Lit(Num(5)))>>) >>

\* class A { method() { print "A"; } }
\* class B < A { method() { super.method(); print "B"; } }
\* B().method();
Inherit ==
    << ClassStmt("A", NoNode, <<
           FunctionStmt("method", <<>>, << PrintStmt(Lit(Str("A"))) >>) >>),
       ClassStmt("B", VarExpr(1001, "A"), <<
           FunctionStmt("method", <<>>, <<
               CallStmt(SuperExpr(1002, "method"), <<>>),
               PrintStmt(Lit(Str("B"))) >>) >>),
       CallStmt(GetExpr(CallExpr(VarExpr(1003, "B"), <<>>), "method"), <<>>) >>

\* var NotClass = 1; { var z = 2; class C < NotClass {} print "skipped"; }
BadSuper ==
    << VarStmt("NotClass", Lit(Num(1))),
       BlockStmt(<< VarStmt("z", Lit(Num(2))),
                    ClassStmt("C", VarExpr(1101, "NotClass"), <<>>),
                    PrintStmt(Lit(Str("skipped"))) >>) >>

\* { class D < Undefined { m() {} } }
NoSuper ==
    << BlockStmt(<< ClassStmt("D", VarExpr(1201, "Undefined"), <<
                        FunctionStmt("m", <<>>, <<>>) >>) >>) >>

\* { class Base { init(v) { this.v = v; } get() { return this.v; } }
\*   class Derived < Base { get() { return super.get() + 1; } }
\*   print Derived(1).get(); }
LocalClasses ==
    << BlockStmt(<<
           ClassStmt("Base", NoNode, <<
               FunctionStmt("init", <<"v">>, <<
                   ExprStmt(SetExpr(ThisExpr(1301), "v", VarExpr(1302, "v"))) >>),
               FunctionStmt("get", <<>>, <<
                   ReturnStmt(GetExpr(ThisExpr(1303), "v")) >>) >>),
           ClassStmt("Derived", VarExpr(1304, "Base"), <<
               FunctionStmt("get", <<>>, <<
                   ReturnStmt(BinaryExpr(CallExpr(SuperExpr(1305, "get"), <<>>),
                                         "PLUS", Lit(Num(1)))) >>) >>),
           PrintStmt(CallExpr(GetExpr(CallExpr(VarExpr(1306, "Derived"),
                                               <<Lit(Num(1))>>), "get"), <<>>)) >>) >>

\* x = x + 1; x;
Increment ==
    << ExprStmt(AssignExpr(1401, "x",
           BinaryExpr(VarExpr(1402, "x"), "PLUS", Lit(Num(1))))),
       ExprStmt(VarExpr(1403, "x")) >>

Programs ==
    << StaticScope, Counter, Unwind, DeepError, TooManyArgs, TooFewArgs,
       ClassArity, NativeArity, NotCallable, Inherit, BadSuper, NoSuper,
       LocalClasses, Increment >>

\* The values clock() may return during one Interpret call.
Ticks == {0, 1}

----------------------------------------------------------------------------
\* The interpreter session: NewInterpreter, then lines that are resolved and
\* interpreted one after the other (one line when a script file is run).

\* The Interpreter as the record the visit methods thread.
Interpreter(now) ==
    [globals |-> globals, environment |-> environment, locals |-> locals,
     output |-> output, isREPL |-> isREPL, envs |-> envs, instances |-> instances,
     nextId |-> nextId, reporter |-> reporter, trace |-> <<>>, now |-> now]

InitReporters ==
    /\ reporter = NewSimpleReporter
    /\ reporter1 = NewSimpleReporter
    /\ calls = <<>>

InitDriver ==
    /\ pc = "start"
    /\ nargs = 0
    /\ inputs = <<>>
    /\ exitCode = -1

\* interpreter.go:25-37
NewInterpreter ==
    /\ envs = << [values |-> put(NoValues, "clock", Clock), enclosing |-> 0] >>
    /\ globals = 1
    /\ environment = 1
    /\ locals = NoValues
    /\ output = <<>>
    /\ isREPL \in BOOLEAN
    /\ instances = <<>>
    /\ nextId = 1

InitSession ==
    /\ phase = "idle"
    /\ pending = <<>>
    /\ runs = 0
    /\ trace = <<>>
    /\ before = [output |-> <<>>, reporter |-> NewSimpleReporter, locals |-> NoValues,
                 environment |-> 1, names |-> {"clock"}]

Init == NewInterpreter /\ InitSession /\ InitReporters /\ InitDriver

\* The resolver runs over the next line and fills in.locals.
ResolveLine(p) ==
    /\ phase = "idle"
    /\ runs < MaxRuns
    /\ isREPL \/ runs = 0
    /\ locals' = Resolved(locals, Programs[p])
    /\ pending' = Programs[p]
    /\ phase' = "ready"
    /\ UNCHANGED <<globals, environment, output, isREPL, envs, instances, nextId,
                   reporter, reporter1, runs, trace, before,
                   pc, nargs, inputs, exitCode, calls>>

\* Interpret(pending).
InterpretLine(now) ==
    /\ phase = "ready"
    /\ \E in \in {Interpret(Interpreter(now), pending)} :
           /\ environment' = in.environment
           /\ locals' = in.locals
           /\ output' = in.output
           /\ envs' = in.envs
           /\ instances' = in.instances
           /\ nextId' = in.nextId
           /\ reporter' = in.reporter
           /\ trace' = in.trace
    /\ before' = [output |-> output, reporter |-> reporter, locals |-> locals,
                  environment |-> environment,
                  names |-> DOMAIN envs[globals].values]
    /\ phase' = "idle"
    /\ runs' = runs + 1
    /\ UNCHANGED <<globals, isREPL, pending, reporter1, pc, nargs, inputs,
                   exitCode, calls>>

Next ==
    \/ \E p \in DOMAIN Programs : ResolveLine(p)
    \/ \E now \in Ticks : InterpretLine(now)

Spec == Init /\ [][Next]_vars

----------------------------------------------------------------------------
\* Properties of the interpreter, stated over the history of the last
\* Interpret call.

Events(kind) == {i \in DOMAIN trace : trace[i].ev = kind}
Ran == phase = "idle" /\ runs > 0
heap == [envs |-> envs]

\* The exit of block j lies inside a block entered earlier that exits later.
Nested(j) ==
    \E o \in Events("exitBlock") : o > j /\ trace[o].enter < trace[j].enter

\* C4: execBlock makes the given environment the current one for its
\* statements, and on every exit (completion, runtime error, return signal)
\* the current environment is again the one that was current before
\* execBlock was entered, at any depth of nesting.
C4_ExecBlockRestores ==
    /\ \A j \in Events("exitBlock") :
          /\ trace[trace[j].enter].ev = "enterBlock"
          /\ trace[j].environment = trace[trace[j].enter].prev
    /\ \A i \in Events("enterBlock") :
          trace[i + 1].ev = "stmt" => trace[i + 1].environment = trace[i].env
    /\ \A i \in Events("stmt") :
          (i > 1 /\ trace[i - 1].ev = "done")
              => trace[i].environment = trace[trace[i - 1].start].environment

\* One run in which nested blocks exit in all three ways, the function
\* frames among them being entered from a frame that is not their closure.
C4_Witness ==
    /\ Ran
    /\ \E a, b, c \in Events("exitBlock") :
          /\ trace[a].err.k = "nil" /\ Nested(a)
          /\ trace[b].err.k = "callReturn" /\ Nested(b)
          /\ trace[c].err.k = "runtimeError" /\ Nested(c)
          /\ trace[c].prev # envs[trace[trace[c].enter].env].enclosing

\* The first "caught" event after i, or the end of the history.
RECURSIVE caughtAfter(_)
caughtAfter(i) ==
    IF i > Len(trace) THEN i
    ELSE IF trace[i].ev = "caught" THEN i
    ELSE caughtAfter(i + 1)

Signals ==
    {i \in Events("done") : trace[i].k = "Return" /\ trace[i].err.k = "callReturn"}

\* C5: the return signal of a return statement carries the value evaluated
\* (nil without a value) and reaches the call unchanged: between the return
\* statement and the call that takes the signal no statement starts and no
\* loop condition is evaluated; every enclosing statement and block only
\* ends, with that same signal.
C5_ReturnUnwinds ==
    /\ \A i \in Signals :
          LET j == caughtAfter(i)
          IN  /\ j <= Len(trace)
              /\ trace[j].val = trace[i].err.val
              /\ \A m \in (i + 1)..(j - 1) :
                    /\ trace[m].ev \in {"done", "exitBlock"}
                    /\ trace[m].err = trace[i].err
              /\ ~trace[trace[i].start].about.hasVal => trace[i].err.val = Nil
    /\ (Ran /\ pending = Unwind)
          => output = before.output \o <<"1", "after", "nil">>

\* A return with a value that leaves an if, two blocks and a while loop,
\* and a return without a value, in the same run.
C5_Witness ==
    /\ Ran
    /\ \E i \in Signals :
          /\ trace[i].err.val = Num(1)
          /\ \E w, f, b \in (i + 1)..(caughtAfter(i) - 1) :
                /\ trace[w].ev = "done" /\ trace[w].k = "While"
                /\ trace[f].ev = "done" /\ trace[f].k = "If"
                /\ trace[b].ev = "exitBlock" /\ Nested(b)
    /\ \E i \in Signals : ~trace[trace[i].start].about.hasVal

IsPrefix(a, b) == Len(a) <= Len(b) /\ SubSeq(b, 1, Len(a)) = a

Tops == Events("top")

\* C6: Interpret runs the top-level statements in order; a statement that
\* fails is reported exactly once and is the last one run; what the earlier
\* statements wrote and defined in the globals is still there.
C6_InterpretStopsAtError ==
    Ran =>
        LET k == Cardinality(Tops)
            last == trace[Len(trace)]
        IN  /\ k <= Len(pending)
            /\ \A i \in Tops :
                  /\ trace[i].i = Cardinality({t \in Tops : t <= i})
                  /\ i > 1 => trace[i - 1].ev = "done" /\ trace[i - 1].err = NoErr
                  /\ IsPrefix(before.output, trace[i].output)
                  /\ IsPrefix(trace[i].output, output)
                  /\ before.names \subseteq trace[i].names
                  /\ trace[i].names \subseteq DOMAIN envs[globals].values
            /\ pending # <<>> => last.ev = "done"
            /\ IF pending # <<>> /\ last.err # NoErr
               THEN /\ reporter.writer = Append(before.reporter.writer, last.err)
                    /\ last.err.k = "runtimeError" => reporter.hadRuntimeErr
               ELSE /\ reporter = before.reporter
                    /\ k = Len(pending)

\* A run that fails at a statement that is neither the first nor the last,
\* after output was written and globals were defined.
C6_Witness ==
    /\ Ran
    /\ trace[Len(trace)].err.k = "runtimeError"
    /\ Cardinality(Tops) > 1
    /\ Cardinality(Tops) < Len(pending)
    /\ Len(output) > Len(before.output)
    /\ before.names # DOMAIN envs[globals].values

\* The callee of activation act and its n arguments are evaluated, in
\* order, before position i of the history.
ArgsBefore(act, n, i) ==
    /\ trace[act].ev = "callee"
    /\ trace[act].n = n
    /\ act < i
    /\ \E pos \in [1..n -> (act + 1)..(i - 1)] :
          /\ \A a \in 1..n : trace[pos[a]] = [ev |-> "arg", act |-> act, i |-> a]
          /\ \A a \in 1..(n - 1) : pos[a] < pos[a + 1]

\* C7: when the callee is callable, "Expected N arguments but got M." is
\* raised exactly when the number of arguments differs from the arity, and
\* then the callee is not invoked and nothing happens between the check and
\* the error; the callee and every argument, left to right, are evaluated
\* before the callable check and before the arity check.
C7_ArityChecked ==
    /\ \A i \in Events("check") :
          LET act == trace[i].act
              differs == trace[i].nargs # trace[i].arity
          IN  /\ ArgsBefore(act, trace[i].nargs, i)
              /\ trace[i + 1].ev \in {"arityError", "invoke"}
              /\ trace[i + 1].act = act
              /\ differs <=> trace[i + 1].ev = "arityError"
              /\ differs =>
                    /\ trace[i + 2] =
                          [ev |-> "called", act |-> act,
                           err |-> newRuntimeError(
                                      arityMessage(trace[i].arity, trace[i].nargs))]
                    /\ \A m \in Events("invoke") : trace[m].act # act
    /\ \A c \in Events("called") : ArgsBefore(trace[c].act, trace[trace[c].act].n, c)
    /\ (Ran /\ pending = TooManyArgs)
          => /\ getAt(heap, globals, 0, "n") = Num(2)
             /\ output = before.output

\* A call with two arguments, both with an effect, of a function of one
\* parameter.
C7_Witness ==
    /\ Ran
    /\ \E i \in Events("check") :
          /\ trace[i].nargs = 2 /\ trace[i].arity = 1
          /\ \E a \in Events("assign") : trace[i].act < a /\ a < i
          /\ trace[i + 1].ev = "arityError"

ClassesDone == {i \in Events("done") : trace[i].k = "Class"}

\* C8: a class statement leaves the current environment as it found it on
\* every exit; on success the class is bound to its name in that frame;
\* with a superclass every method's closure is a frame of its own that binds
\* super to the superclass and is enclosed by the defining frame; without
\* one it is the defining frame.
C8_ClassStatement ==
    \A i \in ClassesDone :
        LET start == trace[trace[i].start]
            class == trace[i].bound
        IN  /\ trace[i].environment = start.environment
            /\ trace[i].err = NoErr =>
                  /\ class.t = "class"
                  /\ class.name = start.about.name
                  /\ DOMAIN class.methods = start.about.methods
                  /\ start.about.hasSuper <=> class.super # Nil
                  /\ \A m \in DOMAIN class.methods :
                        LET closure == class.methods[m].closure
                        IN  IF start.about.hasSuper
                            THEN /\ closure > start.nenvs
                                 /\ envs[closure].enclosing = start.environment
                                 /\ envs[closure].values = put(NoValues, "super", class.super)
                                 /\ class.super.t = "class"
                            ELSE closure = start.environment

\* A class with a superclass and a method, declared in a local frame.
C8_Witness ==
    /\ Ran
    /\ \E i \in ClassesDone :
          /\ trace[i].err = NoErr
          /\ trace[trace[i].start].about.hasSuper
          /\ trace[i].bound.methods # NoValues
          /\ trace[i].environment # globals

\* The frame steps links up from env.
Target(e) == ancestor(heap, e.environment, locals[e.id])

undefinedVariable(name) == newRuntimeError("Undefined variable '" \o name \o "'.")

\* C9: a read or an assignment with a recorded distance d acts on the frame
\* d links up from the current environment; one without acts on the globals
\* alone; an unresolved assignment to a name the globals do not bind fails
\* and binds nothing; Interpret leaves the distance table as it is.
C9_Distances ==
    /\ \A i \in Events("read") :
          LET e == trace[i]
          IN  /\ e.changed = {} /\ e.now = e.was
              /\ IF e.id \in DOMAIN locals
                 THEN /\ e.err = NoErr
                      /\ e.val = IF e.was[Target(e)] = Absent THEN Nil ELSE e.was[Target(e)]
                 ELSE IF e.was[globals] # Absent
                 THEN e.err = NoErr /\ e.val = e.was[globals]
                 ELSE e.err = undefinedVariable(e.name)
    /\ \A i \in Events("assign") :
          LET e == trace[i]
          IN  IF e.id \in DOMAIN locals
              THEN /\ e.err = NoErr
                   /\ e.now = [e.was EXCEPT ![Target(e)] = e.val]
                   /\ e.changed \subseteq {Target(e)}
              ELSE IF e.was[globals] # Absent
              THEN /\ e.err = NoErr
                   /\ e.now = [e.was EXCEPT ![globals] = e.val]
                   /\ e.changed \subseteq {globals}
              ELSE /\ e.err = undefinedVariable(e.name)
                   /\ e.now = e.was
                   /\ e.changed = {}
    /\ Ran => locals = before.locals

\* The frames of the chain from env up to the globals.
RECURSIVE chain(_)
chain(env) == IF env = 0 THEN {} ELSE {env} \cup chain(envs[env].enclosing)

\* An unresolved read and an unresolved assignment of a name that a local
\* frame of the current chain binds too, a resolved read more than one
\* frame up, and an unresolved assignment to a name the globals do not bind.
C9_Witness ==
    /\ Ran
    /\ \E i \in Events("read") :
          /\ trace[i].id \notin DOMAIN locals
          /\ \E f \in chain(trace[i].environment) \ {globals} :
                trace[i].was[f] \notin {Absent, trace[i].val}
    /\ \E i \in Events("assign") :
          /\ trace[i].id \notin DOMAIN locals
          /\ \E f \in chain(trace[i].environment) \ {globals} :
                trace[i].now[f] \notin {Absent, trace[i].val}
    /\ \E i \in Events("read") :
          trace[i].id \in DOMAIN locals /\ locals[trace[i].id] > 0
    /\ \E i \in Events("assign") :
          trace[i].id \notin DOMAIN locals /\ trace[i].was[globals] = Absent

\* C10: whenever Interpret has returned, the current environment is the
\* globals frame.
C10_BackInGlobals == phase = "idle" => environment = globals

\* Interpret has returned after a runtime error raised inside nested
\* blocks, and after a class with a superclass was declared.
C10_Witness ==
    /\ Ran
    /\ runs = 2
    /\ \E c \in Events("exitBlock") : trace[c].err.k = "runtimeError" /\ Nested(c)
    /\ \E n \in DOMAIN envs[globals].values :
          envs[globals].values[n].t = "class" /\ envs[globals].values[n].super # Nil

----------------------------------------------------------------------------
\* The reporters on their own: any sequence of Report and Reset calls, made
\* on a SimpleReporter of each copy; calls is the sequence so far.

parseError == [k |-> "parseError", msg |-> "Expect expression."]

Errors == {newRuntimeError("Operands must be numbers."), parseError, newCallReturn(Nil)}

ReportCall(err) ==
    /\ Len(calls) < MaxCalls
    /\ reporter' = Report(reporter, err)
    /\ reporter1' = Report1(reporter1, err)
    /\ calls' = Append(calls, [op |-> "Report", err |-> err])
    /\ UNCHANGED <<globals, environment, locals, output, isREPL, envs, instances,
                   nextId, phase, pending, runs, trace, before,
                   pc, nargs, inputs, exitCode>>

ResetCall ==
    /\ Len(calls) < MaxCalls
    /\ reporter' = Reset(reporter)
    /\ reporter1' = Reset1(reporter1)
    /\ calls' = Append(calls, [op |-> "Reset"])
    /\ UNCHANGED <<globals, environment, locals, output, isREPL, envs, instances,
                   nextId, phase, pending, runs, trace, before,
                   pc, nargs, inputs, exitCode>>

NextReporter ==
    \/ \E err \in Errors : ReportCall(err)
    \/ ResetCall

SpecReporter == Init /\ [][NextReporter]_vars

LastCall == calls[Len(calls)]

Classified(old, new, err) ==
    IF err.k = "runtimeError"
    THEN HadRuntimeError(new) /\ HadError(new) = HadError(old)
    ELSE HadError(new) /\ HadRuntimeError(new) = HadRuntimeError(old)

\* C3: Report(err) sets HadRuntimeError() and leaves HadError() as it is
\* when err is a runtime error, and sets HadError() and leaves
\* HadRuntimeError() as it is for any other error; only Reset() clears a
\* flag that is set.
C3_ReportClassifies ==
    [][ /\ (calls' # calls /\ calls'[Len(calls')].op = "Report") =>
             /\ Classified(reporter, reporter', calls'[Len(calls')].err)
             /\ Classified(reporter1, reporter1', calls'[Len(calls')].err)
        /\ ~(calls' # calls /\ calls'[Len(calls')].op = "Reset") =>
             /\ HadError(reporter) => HadError(reporter')
             /\ HadRuntimeError(reporter) => HadRuntimeError(reporter')
             /\ HadError(reporter1) => HadError(reporter1')
             /\ HadRuntimeError(reporter1) => HadRuntimeError(reporter1')
      ]_vars

\* A runtime error was reported and nothing else since the last Reset: only
\* the runtime flag is set.
C3_Witness ==
    /\ Len(calls) >= 3
    /\ LastCall.op = "Report" /\ LastCall.err.k = "runtimeError"
    /\ calls[Len(calls) - 1].op = "Reset"
    /\ calls[1].op = "Report" /\ calls[1].err.k # "runtimeError"
    /\ HadRuntimeError(reporter) /\ ~HadError(reporter)

----------------------------------------------------------------------------
\* func main and its helpers (unnamed/part_000). A script is its source
\* text; inputs is the sequence of the scripts run so far.

ExitUsage == 64
ExitError == 65

Scripts == {"print 1 + 2;", "print @;", "print ;", "nil - 1;"}

\* scanner.Scan: the errors the scanner reports for a script.
scanErrors(script) ==
    IF script = "print @;"
    THEN << [k |-> "scanError", msg |-> "Unexpected character."] >>
    ELSE << >>

RECURSIVE reportAll(_, _, _)
reportAll(rep, errs, i) ==
    IF i > Len(errs) THEN rep ELSE reportAll(Report(rep, errs[i]), errs, i + 1)

\* unnamed/part_000:34-39: the script is scanned and its tokens are printed.
run(rep, script) == reportAll(rep, scanErrors(script), 1)

\* unnamed/part_000:15-26
Main(n) ==
    /\ pc = "start"
    /\ nargs' = n
    /\ IF n > 1
       THEN pc' = "exited" /\ exitCode' = ExitUsage /\ UNCHANGED reporter
       ELSE /\ reporter' = NewSimpleReporter
            /\ pc' = IF n # 1 THEN "runPrompt" ELSE "runFile"
            /\ UNCHANGED exitCode
    /\ UNCHANGED <<globals, environment, locals, output, isREPL, envs, instances,
                   nextId, reporter1, phase, pending, runs, trace, before,
                   inputs, calls>>

\* unnamed/part_000:45-51: one more line is read and run.
RunPromptLine(script) ==
    /\ pc = "runPrompt"
    /\ Len(inputs) < MaxLines
    /\ reporter' = run(reporter, script)
    /\ inputs' = Append(inputs, script)
    /\ UNCHANGED <<globals, environment, locals, output, isREPL, envs, instances,
                   nextId, reporter1, phase, pending, runs, trace, before,
                   pc, nargs, exitCode, calls>>

\* unnamed/part_000:47-55: the input ends, with or without a read error.
RunPromptEnd(failed) ==
    /\ pc = "runPrompt"
    /\ reporter' = IF failed
                   THEN Report(reporter, [k |-> "ioError", msg |-> "read error"])
                   ELSE reporter
    /\ pc' = "check"
    /\ UNCHANGED <<globals, environment, locals, output, isREPL, envs, instances,
                   nextId, reporter1, phase, pending, runs, trace, before,
                   nargs, inputs, exitCode, calls>>

\* unnamed/part_000:58-64: the file is read and run, or cannot be read.
RunFile(readable, script) ==
    /\ pc = "runFile"
    /\ IF readable
       THEN reporter' = run(reporter, script) /\ inputs' = Append(inputs, script)
       ELSE /\ reporter' = Report(reporter, [k |-> "ioError", msg |-> "no such file"])
            /\ UNCHANGED inputs
    /\ pc' = "check"
    /\ UNCHANGED <<globals, environment, locals, output, isREPL, envs, instances,
                   nextId, reporter1, phase, pending, runs, trace, before,
                   nargs, exitCode, calls>>

\* unnamed/part_000:29-32: exit 65 after an error, else main returns.
MainExit ==
    /\ pc = "check"
    /\ exitCode' = IF HadError(reporter) THEN ExitError ELSE 0
    /\ pc' = "exited"
    /\ UNCHANGED <<globals, environment, locals, output, isREPL, envs, instances,
                   nextId, reporter, reporter1, phase, pending, runs, trace, before,
                   nargs, inputs, calls>>

NextDriver ==
    \/ \E n \in 0..MaxArgs : Main(n)
    \/ \E script \in Scripts : RunPromptLine(script)
    \/ \E failed \in BOOLEAN : RunPromptEnd(failed)
    \/ \E readable \in BOOLEAN, script \in Scripts : RunFile(readable, script)
    \/ MainExit

SpecDriver == Init /\ [][NextDriver]_vars

\* What the language makes of a script: a static (scan, parse or resolve)
\* error, or a runtime error when it is interpreted.
hasStaticError(script) == script \in {"print @;", "print ;"}
hasRuntimeError(script) == script = "nil - 1;"

\* C1: the exit code is 64 with two or more arguments; for a script file it
\* is 65 when the run had a static error, 70 when it had a runtime error
\* and no static error, and 0 otherwise.
C1_ExitCodes ==
    pc = "exited" =>
        /\ nargs > 1 => exitCode = 64
        /\ nargs = 1 =>
              exitCode =
                  IF HadError(reporter) \/ \E i \in DOMAIN inputs : hasStaticError(inputs[i])
                  THEN 65
                  ELSE IF HadRuntimeError(reporter)
                          \/ \E i \in DOMAIN inputs : hasRuntimeError(inputs[i])
                  THEN 70
                  ELSE 0

====
